---- MODULE Spec2Model ----
(***************************************************************************)
(* A model of rjsonnet-py (src/src/lib.rs): the Python binding of the      *)
(* jrsonnet evaluator.  It covers the value marshaler (pyobject_to_val,    *)
(* val_to_pyobject), the host-callback import resolver                     *)
(* (PythonImportResolver), the native callback handler                     *)
(* (JsonnetNativeCallbackHandler), session construction                    *)
(* (VirtualMachine::new), the two entry points and the error translator    *)
(* (error_to_pyerr).  The jrsonnet engine itself is an environment that    *)
(* issues import requests and native calls and finishes with a value or    *)
(* an error.                                                               *)
(***************************************************************************)
EXTENDS Integers, Sequences, FiniteSets, TLC

VARIABLES
    stack,       \* the evaluate_* calls in progress on the host thread, innermost last
    result,      \* what the last evaluate_* call returned to the running Python code
    pyErr,       \* the host thread's pending Python exception (PyErr::restore / fetch)
    stackLimit,  \* jrsonnet's thread-local stack depth limit (set_stack_depth_limit)
    gil,         \* the GIL: who runs, and how many with_gil guards the caller holds
    mv           \* the marshaler's work item (a value crossing the boundary)

vars == <<stack, result, pyErr, stackLimit, gil, mv>>

(***************************************************************************)
(* Bounds of the model.                                                    *)
(***************************************************************************)
MaxDepth == 2          \* evaluate_* calls nested through host callbacks
MaxLen == 2            \* longest host list / dict drawn as an input
MaxForcing == 1        \* native calls whose arguments are being converted at once

(***************************************************************************)
(* Python values.  Each type has its own record shape.                     *)
(***************************************************************************)
HNone == [t |-> "none"]
HBool(b) == [t |-> "bool", b |-> b]
HInt(n) == [t |-> "int", n |-> n]
HFloat(n) == [t |-> "float", f |-> n]     \* a double holding the integral value n
HStr(s) == [t |-> "str", s |-> s]
HList(items) == [t |-> "list", items |-> items]
HTuple(items) == [t |-> "tuple", items |-> items]
HDict(entries) == [t |-> "dict", entries |-> entries]   \* <<[k |-> key, v |-> value], ...>>, insertion order
\* An object that is not an int but has __index__, which returns n (a numpy
\* integer, a class of the caller's).
HIndex(n) == [t |-> "index", n |-> n]
\* The other sequences: bytes and range hold ints; an instance of a
\* collections.abc.Sequence class of the caller's holds items, and its
\* __getitem__ raises exc (if not NoErr) for the index after them.
HBytes(items) == [t |-> "bytes", items |-> items]
HRange(items) == [t |-> "range", items |-> items]
HSeq(items, exc) == [t |-> "sequence", items |-> items, exc |-> exc]
HObject == [t |-> "object"]               \* any other Python object (a function, a set, ...)

(***************************************************************************)
(* Engine values (jrsonnet_evaluator::Val).                                *)
(***************************************************************************)
VNull == [t |-> "Null"]
VBool(b) == [t |-> "Bool", b |-> b]
VNum(n) == [t |-> "Num", n |-> n]
VStr(s) == [t |-> "Str", s |-> s]
VArr(items) == [t |-> "Arr", items |-> items]
VObj(fields) == [t |-> "Obj", fields |-> fields]   \* <<[k |-> name, v |-> Val, hidden |-> BOOLEAN], ...>>, declaration order
\* An array element or object field that is still lazy and whose evaluation
\* fails with the engine error msg (the Err of the Result at lines 143, 154).
VFailing(msg) == [t |-> "Failing", msg |-> msg]
\* An array element or object field that is not evaluated yet: the engine
\* evaluates it when item.unwrap() at line 143 or o.get(field) at lines
\* 152-154 forces it.
VLazy == [t |-> "Lazy"]
VFunc == [t |-> "Func"]

\* A Python exception.
PyExc(type, msg) == [type |-> type, msg |-> msg]
NoErr == [type |-> "none"]

POk(v) == [ok |-> TRUE, val |-> v]
PErr(e) == [ok |-> FALSE, err |-> e]

\* A raised panic (unwrap on None / Err, unimplemented!).
Panic == [t |-> "panic"]

(***************************************************************************)
(* pyobject_to_val, lib.rs 100-132.                                        *)
(***************************************************************************)
\* obj.extract::<u64>() goes through __index__: it succeeds on a Python int,
\* and on any object with __index__, whose value is in the range of u64.  The
\* integers of the model stay far below 2^64, so only the sign decides.
ExtractU64(h) == h.t \in {"int", "index"} /\ h.n >= 0

\* downcast::<PySequence>: every collections.abc.Sequence (str was matched
\* earlier): lists and tuples, bytes, ranges, classes of the caller's.
IsPySequence(h) == h.t \in {"list", "tuple", "bytes", "range", "sequence"}

\* seq.get_item(i)? at line 115 fails: the sequence's __getitem__ raises.
GetItemFails(h) == h.t = "sequence" /\ h.exc # [type |-> "none"]

UnrecognizedType ==
    PyExc("TypeError", "Unrecognized type return from Python Jsonnet native extension.")
\* The name of a Python value's type, as pyo3's conversion errors print it.
TypeName(h) ==
    CASE h.t = "none" -> "NoneType"
      [] h.t = "object" -> "object"
      [] h.t = "index" -> "Idx"           \* the classes of the caller's, by their names
      [] h.t = "sequence" -> "MySeq"
      [] OTHER -> h.t

CannotConvert(h, to) ==
    PyExc("TypeError", "'" \o TypeName(h) \o "' object cannot be converted to '" \o to \o "'")

\* Line 122: k.extract::<String>() on a key that is not a str; the error
\* names the key's own type.
KeyNotString(k) == CannotConvert(k, "PyString")

\* A Python str is handed to Rust as UTF-8 (s.to_str() at line 102,
\* extract::<String>() at lines 62, 122, 280).  A str that holds a lone
\* surrogate has no UTF-8 encoding: the conversion fails with Python's
\* UnicodeEncodeError.
LoneSurrogate == "\\udc80"
Encodable(h) == h.s # LoneSurrogate
NotEncodable(h) ==
    PyExc("UnicodeEncodeError",
          "'utf-8' codec can't encode character '" \o h.s \o "' in position 0: surrogates not allowed")

RECURSIVE pyobject_to_val(_)
RECURSIVE SeqToVals(_, _, _)
RECURSIVE DictToFields(_, _, _)

\* The loop of lines 114-117: convert items i.., appending to arr; the first error returns.
SeqToVals(items, i, arr) ==
    IF i > Len(items) THEN POk(VArr(arr))
    ELSE LET r == pyobject_to_val(items[i])
         IN IF r.ok THEN SeqToVals(items, i + 1, Append(arr, r.val)) ELSE r

\* extend_field(k).value(v) on an ObjValue built by this loop: a new field, visible.
ExtendField(fields, k, v) ==
    LET others == SelectSeq(fields, LAMBDA f : f.k # k)
    IN Append(others, [k |-> k, v |-> v, hidden |-> FALSE])

\* The loop of lines 121-125.
DictToFields(entries, i, fields) ==
    IF i > Len(entries) THEN POk(VObj(fields))
    ELSE IF entries[i].k.t # "str" THEN PErr(KeyNotString(entries[i].k))
    ELSE IF ~Encodable(entries[i].k) THEN PErr(NotEncodable(entries[i].k))
    ELSE LET r == pyobject_to_val(entries[i].v)
         IN IF r.ok THEN DictToFields(entries, i + 1, ExtendField(fields, entries[i].k.s, r.val))
            ELSE r

pyobject_to_val(obj) ==
    IF obj.t = "str" THEN (IF Encodable(obj) THEN POk(VStr(obj.s)) ELSE PErr(NotEncodable(obj)))
    ELSE IF obj.t = "bool" THEN POk(VBool(obj.b))
    ELSE IF obj.t = "float" THEN POk(VNum(obj.f))
    ELSE IF ExtractU64(obj) THEN POk(VNum(obj.n))
    ELSE IF obj.t = "none" THEN POk(VNull)
    ELSE IF IsPySequence(obj)
    THEN LET r == SeqToVals(obj.items, 1, <<>>)
         IN IF r.ok /\ GetItemFails(obj) THEN PErr(obj.exc) ELSE r
    ELSE IF obj.t = "dict" THEN DictToFields(obj.entries, 1, <<>>)
    ELSE PErr(UnrecognizedType)

(***************************************************************************)
(* val_to_pyobject, lib.rs 134-162.                                        *)
(***************************************************************************)
\* Field names are ordered as strings; the model's names are ranked here.
KeyRank(k) == CASE k = "a" -> 1 [] k = "b" -> 2 [] k = "c" -> 3 [] OTHER -> 4

RECURSIVE SortKeys(_)
SortKeys(ks) ==
    IF Len(ks) <= 1 THEN ks
    ELSE LET m == CHOOSE i \in 1..Len(ks) : \A j \in 1..Len(ks) : KeyRank(ks[i]) <= KeyRank(ks[j])
             rest == [i \in 1..(Len(ks) - 1) |-> IF i < m THEN ks[i] ELSE ks[i + 1]]
         IN <<ks[m]>> \o SortKeys(rest)

\* ObjValue::fields(preserve_order): the visible field names, in declaration
\* order when preserve_order is set, sorted otherwise.
Fields(o, preserve_order) ==
    LET vis == SelectSeq(o.fields, LAMBDA f : ~f.hidden)
        names == [i \in 1..Len(vis) |-> vis[i].k]
    IN IF preserve_order THEN names ELSE SortKeys(names)

\* ObjValue::get(field) on a concrete object.
ObjGet(o, k) ==
    LET hit == SelectSeq(o.fields, LAMBDA f : f.k = k)
    IN hit[1].v

\* val_to_pyobject walks a value in order: the elements of an array from the
\* first (line 142), the visible fields of an object in the order of
\* o.fields(preserve_order) (line 150); hidden fields are not read.  The walk
\* stops where it panics (a failing element or field, a function).  Met(..)
\* is what the walk meets first: "lazy" for an element or field that is not
\* evaluated yet, "panic", or "done" when it reaches the end.
FirstMet(events) ==
    IF \A i \in 1..Len(events) : events[i] = "done" THEN "done"
    ELSE events[CHOOSE i \in 1..Len(events) :
                    events[i] # "done" /\ \A j \in 1..(i - 1) : events[j] = "done"]

RECURSIVE Met(_, _)
Met(val, preserve_order) ==
    CASE val.t = "Lazy" -> "lazy"
      [] val.t \in {"Failing", "Func"} -> "panic"
      [] val.t = "Arr" ->
            FirstMet([i \in 1..Len(val.items) |-> Met(val.items[i], preserve_order)])
      [] val.t = "Obj" ->
            LET ks == Fields(val, preserve_order)
            IN FirstMet([i \in 1..Len(ks) |-> Met(ObjGet(val, ks[i]), preserve_order)])
      [] OTHER -> "done"

\* The conversion of the value meets an element or field that is not
\* evaluated yet before it ends or panics.
HasLazy(val, preserve_order) == Met(val, preserve_order) = "lazy"

\* The value once the unevaluated element or field the conversion meets
\* first has evaluated to v; what the walk has not reached stays as it is.
RECURSIVE Forced(_, _, _)
Forced(val, v, preserve_order) ==
    CASE val.t = "Lazy" -> v
      [] val.t = "Arr" ->
            LET i == CHOOSE i \in 1..Len(val.items) :
                         /\ Met(val.items[i], preserve_order) # "done"
                         /\ \A j \in 1..(i - 1) : Met(val.items[j], preserve_order) = "done"
            IN VArr([val.items EXCEPT ![i] = Forced(@, v, preserve_order)])
      [] val.t = "Obj" ->
            LET ks == Fields(val, preserve_order)
                i == CHOOSE i \in 1..Len(ks) :
                         /\ Met(ObjGet(val, ks[i]), preserve_order) # "done"
                         /\ \A j \in 1..(i - 1) : Met(ObjGet(val, ks[j]), preserve_order) = "done"
            IN VObj([n \in 1..Len(val.fields) |->
                        IF val.fields[n].k = ks[i] /\ ~val.fields[n].hidden
                        THEN [val.fields[n] EXCEPT !.v = Forced(@, v, preserve_order)]
                        ELSE val.fields[n]])

\* The same for the arguments of a native call, converted from the first
\* (lines 177-180).
ArgsMet(args, preserve_order) ==
    FirstMet([i \in 1..Len(args) |-> Met(args[i], preserve_order)])
ArgsForced(args, v, preserve_order) ==
    LET i == CHOOSE i \in 1..Len(args) :
                 /\ Met(args[i], preserve_order) # "done"
                 /\ \A j \in 1..(i - 1) : Met(args[j], preserve_order) = "done"
    IN [args EXCEPT ![i] = Forced(@, v, preserve_order)]

RECURSIVE val_to_pyobject(_, _)
val_to_pyobject(val, preserve_order) ==
    CASE val.t = "Bool" -> HBool(val.b)
      [] val.t = "Null" -> HNone
      [] val.t = "Str" -> HStr(val.s)
      [] val.t = "Num" -> HFloat(val.n)
      [] val.t = "Arr" ->
            LET items == [i \in 1..Len(val.items) |-> val_to_pyobject(val.items[i], preserve_order)]
            IN IF \E i \in 1..Len(items) : items[i] = Panic THEN Panic ELSE HList(items)
      [] val.t = "Obj" ->
            LET ks == Fields(val, preserve_order)
                es == [i \in 1..Len(ks) |->
                         [k |-> HStr(ks[i]), v |-> val_to_pyobject(ObjGet(val, ks[i]), preserve_order)]]
            IN IF \E i \in 1..Len(es) : es[i].v = Panic THEN Panic ELSE HDict(es)
      [] val.t = "Func" -> Panic
      [] val.t = "Failing" -> Panic        \* item.unwrap(), o.get(field).unwrap()
      \* An unevaluated element is converted only after it was forced (ForceDone);
      \* one that is still here lies behind the element where the walk panics.
      [] val.t = "Lazy" -> Panic

(***************************************************************************)
(* Python's == on the values above: an int equals the float of the same    *)
(* value, dicts compare without regard to order, a bool is kept apart from *)
(* the numbers here because the round trip is asked to keep its type.      *)
(***************************************************************************)
RECURSIVE HostEq(_, _)
HostEq(x, y) ==
    IF x = Panic \/ y = Panic THEN FALSE
    ELSE IF x.t \in {"int", "float"} /\ y.t \in {"int", "float"}
    THEN (IF x.t = "int" THEN x.n ELSE x.f) = (IF y.t = "int" THEN y.n ELSE y.f)
    ELSE IF x.t # y.t THEN FALSE
    ELSE IF x.t \in {"list", "tuple"}
    THEN Len(x.items) = Len(y.items) /\ \A i \in 1..Len(x.items) : HostEq(x.items[i], y.items[i])
    ELSE IF x.t = "dict"
    THEN /\ Len(x.entries) = Len(y.entries)
         /\ \A i \in 1..Len(x.entries) : \E j \in 1..Len(y.entries) :
                x.entries[i].k = y.entries[j].k /\ HostEq(x.entries[i].v, y.entries[j].v)
    ELSE x = y

(***************************************************************************)
(* Paths and source identities (jrsonnet_parser::SourcePath).  A path is   *)
(* the sequence of its components.                                         *)
(***************************************************************************)
SrcFile(p) == [kind |-> "File", p |-> p]
SrcDir(p) == [kind |-> "Directory", p |-> p]
SrcVirtual(name) == [kind |-> "Virtual", p |-> <<name>>]
SrcDefault == [kind |-> "Default", p |-> <<>>]
SrcOpaque == [kind |-> "Opaque", p |-> <<>>]     \* a SourcePathT of some other crate
NoSrc == [kind |-> "none", p |-> <<>>]

\* PathBuf::pop, line 43: drop the last component; a root or empty path stays.
Pop(p) == IF Len(p) = 0 \/ p = <<"/">> THEN p ELSE SubSeq(p, 1, Len(p) - 1)

Cwd == <<"/", "cwd">>                     \* env::current_dir()
Dot == <<".">>                            \* the "." of evaluate_file, line 308

\* SourcePath::is_default, as line 47 uses it: jrsonnet's SourceDefault and
\* SourceVirtual answer true, SourceFile and SourceDirectory false.
is_defaultOnlyDefault(from) == from.kind = "Default"
is_default(from) == from.kind \in {"Default", "Virtual"}

\* An engine error (jrsonnet_evaluator::error::ErrorKind).
EErr(kind, msg, from, path) == [kind |-> kind, msg |-> msg, from |-> from, path |-> path]
NoEErr == EErr("none", "", NoSrc, <<>>)

CallbackError(msg) == EErr("ImportCallbackError", "import_callback error: " \o msg, NoSrc, <<>>)

\* Line 84: the error names the requesting source and the requested path.
NotFoundResolved(from, path, resolved) == EErr("ImportFileNotFound", "", NoSrc, resolved)
NotFound(from, path, resolved) == EErr("ImportFileNotFound", "", from, path)

CantResolve == PyExc("RuntimeError", "can't resolve this path")

\* Lines 41-59: the base directory handed to the callback.
ResolveBaseVirtualFails(from, cwdOk) ==
    IF from.kind = "File" THEN [st |-> "ok", base |-> Pop(from.p)]
    ELSE IF from.kind = "Directory" THEN [st |-> "ok", base |-> from.p]
    ELSE IF from.kind = "Default" THEN [st |-> IF cwdOk THEN "ok" ELSE "io", base |-> Cwd]
    ELSE [st |-> "cant", base |-> <<>>]
ResolveBase(from, cwdOk) ==
    IF from.kind = "File" THEN [st |-> "ok", base |-> Pop(from.p)]
    ELSE IF from.kind = "Directory" THEN [st |-> "ok", base |-> from.p]
    ELSE IF is_default(from) THEN [st |-> IF cwdOk THEN "ok" ELSE "io", base |-> Cwd]
    ELSE [st |-> "cant", base |-> <<>>]

(***************************************************************************)
(* The import cache, PythonImportResolver.out: a map from SourcePath to    *)
(* content, held as the set of its entries.                                *)
(***************************************************************************)
ContainsKey(out, id) == \E e \in out : e.id = id
Get(out, id) == (CHOOSE e \in out : e.id = id).content

\* Line 77: the identity is the file the callback named.
ResolvedIdentity(resolved) == SrcFile(resolved)

\* Lines 78-81.
InsertOverwrite(out, id, content) ==
    {e \in out : e.id # id} \cup {[id |-> id, content |-> content]}
InsertNothing(out, id, content) == out
InsertIfAbsent(out, id, content) ==
    IF ~ContainsKey(out, id) THEN out \cup {[id |-> id, content |-> content]} ELSE out

\* What the import callback can do: raise, return something that is not a
\* (str, Optional[str]) pair, or return a pair.
NoContent == "<None>"
CbRaise(exc) == [t |-> "raise", exc |-> exc]
CbReturn(h) == [t |-> "return", h |-> h]      \* a native function returns the value h
CbBadShape(h) == [t |-> "badshape", h |-> h]
CbPair(resolved, content) == [t |-> "pair", resolved |-> resolved, content |-> content]

\* Lines 76-85: the cache after the callback answered with a pair: the
\* content is inserted only in the Some(content) branch.
CacheAfterInsertFirst(out, resolved, content) ==
    InsertIfAbsent(out, ResolvedIdentity(resolved), content)
CacheAfter(out, resolved, content) ==
    IF content # NoContent THEN InsertIfAbsent(out, ResolvedIdentity(resolved), content) ELSE out

\* Line 62: obj.extract::<(String, Option<String>)>() wants a tuple, of
\* length 2, whose first member is a str and whose second is a str or None,
\* every str being one that can be encoded.
IllShaped(h) ==
    \/ h.t # "tuple"
    \/ Len(h.items) # 2
    \/ h.items[1].t # "str"
    \/ ~Encodable(h.items[1])
    \/ h.items[2].t \notin {"str", "none"}
    \/ h.items[2].t = "str" /\ ~Encodable(h.items[2])

\* The exception extract produces on an ill-shaped answer, in the order of
\* its tests.
ExtractFailed(h) ==
    IF h.t # "tuple" THEN CannotConvert(h, "PyTuple")
    ELSE IF Len(h.items) # 2
    THEN PyExc("ValueError",
               "expected tuple of length 2, but got tuple of length " \o ToString(Len(h.items)))
    ELSE IF h.items[1].t # "str" THEN CannotConvert(h.items[1], "PyString")
    ELSE IF ~Encodable(h.items[1]) THEN NotEncodable(h.items[1])
    ELSE IF h.items[2].t # "str" THEN CannotConvert(h.items[2], "PyString")
    ELSE NotEncodable(h.items[2])

(***************************************************************************)
(* Session construction, VirtualMachine::new, lines 207-304.               *)
(***************************************************************************)
\* jrsonnet_parser::parse on the model's code strings.
WellFormed == {"1", "{b:1,a:2,c:3}", "import"}
ParseOk(code) == code \in WellFormed

\* Lines 277-281: the parameter list must be a tuple of str, each of which
\* can be encoded.
ParamOk(arg) == arg.t = "str" /\ Encodable(arg)
ParamsOk(params) ==
    params.t = "tuple" /\ \A i \in 1..Len(params.items) : ParamOk(params.items[i])

\* The exception of lines 277 (downcast) and 280 (extract) on a parameter
\* list that is not: the loop stops at the first parameter that fails.
ParamsError(params) ==
    IF params.t # "tuple" THEN CannotConvert(params, "PyTuple")
    ELSE LET i == CHOOSE i \in 1..Len(params.items) :
                      /\ ~ParamOk(params.items[i])
                      /\ \A j \in 1..(i - 1) : ParamOk(params.items[j])
             arg == params.items[i]
         IN IF arg.t # "str" THEN CannotConvert(arg, "PyString") ELSE NotEncodable(arg)

\* The first failure of construction, in the order of the code, or "ok".
\* ext_codes are parsed by add_ext_code (238-242), tla_codes at 249-260, the
\* import callback is checked at 263, the native parameter lists at 277-281.
NewOutcomeLazyCodes(cfg) ==
    IF cfg.import_callback = "notcallable" THEN "import_callback must be callable"
    ELSE IF \E n \in cfg.native_callbacks : ~ParamsOk(n.params) THEN "bad params"
    ELSE "ok"
NewOutcome(cfg) ==
    IF \E c \in cfg.ext_codes : ~ParseOk(c) THEN "syntax error"
    ELSE IF \E c \in cfg.tla_codes : ~ParseOk(c) THEN "syntax error"
    ELSE IF cfg.import_callback = "notcallable" THEN "import_callback must be callable"
    ELSE IF \E n \in cfg.native_callbacks : ~ParamsOk(n.params) THEN "bad params"
    ELSE "ok"

\* The exceptions construction can fail with, given its first failure: the
\* entries of native_callbacks are visited in the order of a HashMap, so any
\* of the ill-formed parameter lists can be the one that is met.
NewErrors(cfg, o) ==
    CASE o = "syntax error" -> {PyExc("RuntimeError", o)}
      [] o = "import_callback must be callable" -> {PyExc("TypeError", o)}
      [] o = "bad params" ->
            {ParamsError(n.params) : n \in {m \in cfg.native_callbacks : ~ParamsOk(m.params)}}

\* Lines 223, 262-274: which resolver the session ends up with.
InstalledResolverJpathFirst(cfg) ==
    IF cfg.jpathdir THEN "jpath"
    ELSE IF cfg.import_callback # "none" THEN "python"
    ELSE "default"
InstalledResolver(cfg) ==
    IF cfg.import_callback # "none" THEN "python"
    ELSE IF cfg.jpathdir THEN "jpath"
    ELSE "default"

\* Line 300: the format that manifests the final value.  JsonFormat::default()
\* does not take the preserve_order argument.
ManifestOrder(preserve_order) == FALSE

\* The frame of one evaluate_file / evaluate_snippet call: its arguments and
\* the VirtualMachine it built.
NoReq == [from |-> NoSrc, path |-> <<>>, base |-> <<>>, again |-> FALSE]
NoRet == [t |-> "none"]
NoVal == [t |-> "none"]
NoCall == [name |-> "", args |-> <<>>, hargs |-> <<>>]

NewFrame(kind, entry, cfg) ==
    [kind |-> kind,
     entry |-> entry,
     pc |-> IF kind = "file" THEN "entry" ELSE "engine",
     max_stack |-> cfg.max_stack,
     preserve_order |-> cfg.preserve_order,
     import_callback |-> cfg.import_callback,
     jpathdir |-> cfg.jpathdir,
     resolver |-> InstalledResolver(cfg),
     natives |-> {n.name : n \in cfg.native_callbacks},
     ext_codes |-> cfg.ext_codes,
     tla_codes |-> cfg.tla_codes,
     out |-> {},
     loaded |-> {},
     req |-> NoReq,          \* the import request being resolved
     ret |-> NoRet,          \* what the import callback answered to it
     resolved |-> NoSrc,     \* the SourcePath resolve_from returned
     call |-> NoCall,        \* the native call in progress, or the one that failed
     forcing |-> <<>>,       \* the native calls whose arguments are being converted
     got |-> NoVal,          \* the last value a native call gave the engine
     err |-> NoEErr,         \* the engine error that ended the evaluation
     first |-> {},           \* history: per identity, the first content resolved for it
     seen |-> {}]            \* history: per (from, path), its first successful resolution

\* What a call returned to Python.
RNone == [status |-> "none"]
ROk(text, val, preserve_order) ==      \* val, preserve_order: what was manifested, and the call's flag
    [status |-> "ok", text |-> text, val |-> val, preserve_order |-> preserve_order]
RErr(type, msg, err, cause) ==
    [status |-> "err", type |-> type, msg |-> msg, err |-> err, cause |-> cause]

(***************************************************************************)
(* The GIL.  owner is the thread that runs; depth counts the main thread's *)
(* outstanding acquisitions (its own hold as a running Python thread, plus *)
(* one per Python::with_gil guard).                                        *)
(***************************************************************************)
\* Lines 368-383: a #[pyfunction] taking py: Python runs with the caller's
\* GIL; nothing in the file calls allow_threads.
PyFunctionEntry(g) == g

\* Python::with_gil, lines 51, 61, 176: acquire (re-entrantly) around the closure.
WithGilEnter(g) == [owner |-> "main", depth |-> g.depth + 1]
WithGilExit(g) == [owner |-> IF g.depth > 1 THEN "main" ELSE "none", depth |-> g.depth - 1]

\* n guards are dropped, as with_gil closures return or a panic unwinds them.
DropGuards(g, n) == [owner |-> IF g.depth > n THEN "main" ELSE "none", depth |-> g.depth - n]

Depth == Len(stack)
Top == stack[Depth]
SetTop(f) == [stack EXCEPT ![Depth] = f]
CbPcs == {"import_cb", "native_cb"}
\* The main thread is running Python code: outside any call, or inside a callback.
InHostCode == IF Depth = 0 THEN TRUE ELSE Top.pc \in CbPcs
MainRuns == gil.owner = "main"

\* The evaluation of the innermost session ends with the engine error err.
\* Outside any conversion the error is the result of the evaluation; inside
\* val_to_pyobject it is the Err that item.unwrap() (line 143) hits: a panic,
\* which unwinds the guards of the conversions in progress.
FailTop(err) ==
    IF Top.forcing = <<>>
    THEN [Top EXCEPT !.pc = "failed", !.err = err]
    ELSE [Top EXCEPT !.pc = "panicked", !.err = err, !.forcing = <<>>]
Unwound(g) == DropGuards(g, Len(Top.forcing))

\* pyo3's PanicException is what a panic of Rust code becomes in Python.  When
\* a callback raises one, callback.call (line 61) and func.call (line 181) do
\* not return Err: fetching the exception takes it from the interpreter and
\* resumes the panic, which unwinds the guards like any other.
IsPanicException(exc) == exc.type = "PanicException"
PanicTop == [Top EXCEPT !.pc = "panicked", !.forcing = <<>>]

ExcToString(e) == e.type \o ": " \o e.msg

(***************************************************************************)
(* Manifesting the final value (Val::manifest with the session's format).  *)
(***************************************************************************)
RECURSIVE ManifestJson(_, _)
RECURSIVE JoinFields(_, _, _, _)
RECURSIVE JoinItems(_, _, _)
JoinFields(o, ks, i, preserve_order) ==
    IF i > Len(ks) THEN ""
    ELSE (IF i > 1 THEN ", " ELSE "") \o "\"" \o ks[i] \o "\": "
         \o ManifestJson(ObjGet(o, ks[i]), preserve_order)
         \o JoinFields(o, ks, i + 1, preserve_order)
JoinItems(items, i, preserve_order) ==
    IF i > Len(items) THEN ""
    ELSE (IF i > 1 THEN ", " ELSE "") \o ManifestJson(items[i], preserve_order)
         \o JoinItems(items, i + 1, preserve_order)
ManifestJson(val, preserve_order) ==
    CASE val.t = "Null" -> "null"
      [] val.t = "Bool" -> (IF val.b THEN "true" ELSE "false")
      [] val.t = "Num" -> ToString(val.n)
      [] val.t = "Str" -> "\"" \o val.s \o "\""
      [] val.t = "Arr" -> "[" \o JoinItems(val.items, 1, preserve_order) \o "]"
      [] val.t = "Obj" -> "{" \o JoinFields(val, Fields(val, preserve_order), 1, preserve_order) \o "}"

\* Lines 306-318 and 398-401 on success: the text handed back to Python.
ManifestResult(val, preserve_order) ==
    ROk(ManifestJson(val, ManifestOrder(preserve_order)), val, preserve_order)

\* Lines 188-192: the engine error a failed native call becomes.
NativeError(name, exc) ==
    EErr("RuntimeError",
         "error invoking native extension " \o name \o ": " \o ExcToString(exc), NoSrc, <<>>)

\* Lines 320-333: the pending Python exception, if any, becomes the cause.
\* write_trace renders the error's kind and message.
TraceText(err) == err.kind \o ": " \o err.msg
error_to_pyerr(err, pending) == RErr("RuntimeError", TraceText(err), err, pending)

(***************************************************************************)
(* Inputs.                                                                 *)
(***************************************************************************)
DefaultMaxStack == 500
SmallStack == 5
NativeF == [name |-> "f", params |-> HTuple(<<HStr("x")>>)]
NativeBadParams == [name |-> "g", params |-> HList(<<HStr("x")>>)]
NativeBadName == [name |-> "h", params |-> HTuple(<<HStr("x"), HStr(LoneSurrogate)>>)]

BaseCfg ==
    [import_callback |-> "callable", jpathdir |-> FALSE, max_stack |-> DefaultMaxStack,
     ext_codes |-> {}, tla_codes |-> {}, native_callbacks |-> {NativeF},
     preserve_order |-> FALSE]

AltCfg ==
    [BaseCfg EXCEPT !.preserve_order = TRUE, !.max_stack = SmallStack,
                    !.ext_codes = {"1"}, !.tla_codes = {"1"}]

Configs ==
    {BaseCfg,
     AltCfg,
     [BaseCfg EXCEPT !.ext_codes = {"1", "1+"}],
     [BaseCfg EXCEPT !.tla_codes = {"1+"}],
     [BaseCfg EXCEPT !.import_callback = "notcallable"],
     [BaseCfg EXCEPT !.import_callback = "none"],
     [BaseCfg EXCEPT !.import_callback = "none", !.jpathdir = TRUE],
     [BaseCfg EXCEPT !.jpathdir = TRUE],
     [BaseCfg EXCEPT !.native_callbacks = {NativeF, NativeBadParams}],
     [BaseCfg EXCEPT !.native_callbacks = {NativeF, NativeBadName}]}

\* A call made from inside a callback of another call.
NestedConfigs == {AltCfg, [BaseCfg EXCEPT !.tla_codes = {"1+"}]}

ObjBAC ==
    VObj(<<[k |-> "b", v |-> VNum(1), hidden |-> FALSE],
           [k |-> "a", v |-> VNum(2), hidden |-> FALSE],
           [k |-> "c", v |-> VNum(3), hidden |-> FALSE]>>)
FinalVals == {VNum(1), ObjBAC}
ArrFailing == VArr(<<VNum(1), VFailing("x")>>)
ArrLazy == VArr(<<VNum(1), VLazy>>)
ObjLazy ==
    VObj(<<[k |-> "a", v |-> ArrLazy, hidden |-> FALSE],
           [k |-> "b", v |-> VLazy, hidden |-> FALSE]>>)
\* Declared b, a: with preserve_order the unevaluated b is met first, without
\* it the failing a.
ObjLazyFailing ==
    VObj(<<[k |-> "b", v |-> VLazy, hidden |-> FALSE],
           [k |-> "a", v |-> VFailing("x"), hidden |-> FALSE]>>)
NativeArgs ==
    {<<VNum(1)>>, <<ObjBAC>>, <<ArrFailing>>, <<ArrLazy>>, <<ObjLazy>>, <<ObjLazyFailing>>}
ForcedVals == {VNum(2)}
Boom == PyExc("ValueError", "boom")
NativeRets ==
    {HInt(1), HInt(-1), HObject, HDict(<<[k |-> HFloat(2), v |-> HInt(1)]>>),
     HList(<<HStr(LoneSurrogate)>>), HIndex(1), HSeq(<<HStr("a")>>, Boom)}

\* The import inputs of a specification: the relative paths the engine asks
\* for, the paths and contents the callback answers with.
FileA == <<"/", "lib", "a">>
FileB == <<"/", "lib", "b">>
\* Answers of the import callback that are not a (str, Optional[str]) pair.
BadAnswers ==
    {HInt(5), HTuple(<<HStr("/lib/a")>>), HTuple(<<HInt(5), HNone>>),
     HTuple(<<HStr("/lib/a"), HInt(5)>>), HTuple(<<HStr(LoneSurrogate), HStr("x")>>),
     HTuple(<<HStr("/lib/a"), HStr(LoneSurrogate)>>)}

Small == [paths |-> {<<"a">>}, ids |-> {FileA}, contents |-> {"x"}, depth |-> MaxDepth,
          cfgs |-> Configs, nested |-> NestedConfigs, nestedKinds |-> {"snippet"},
          bad |-> {HTuple(<<HStr("/lib/a")>>)}]
Wide == [paths |-> {<<"a">>}, ids |-> {FileA, FileB}, contents |-> {"x", "y"}, depth |-> 1,
         cfgs |-> {BaseCfg}, nested |-> {}, nestedKinds |-> {}, bad |-> BadAnswers]

CbRets(P) ==
    {CbRaise(Boom)} \cup {CbBadShape(h) : h \in {b \in P.bad : IllShaped(b)}}
        \cup {CbPair(id, c) : id \in P.ids, c \in P.contents \cup {NoContent}}

(***************************************************************************)
(* evaluate_file / evaluate_snippet up to the constructed session, lines   *)
(* 368-396 and 422-451.                                                    *)
(***************************************************************************)
Call(kind, entry, cfg, maxDepth) ==
    /\ MainRuns /\ InHostCode /\ Depth < maxDepth
    /\ stackLimit' = cfg.max_stack
    /\ LET o == NewOutcome(cfg)
       IN IF o = "ok"
          THEN /\ stack' = Append(stack, NewFrame(kind, entry, cfg))
               /\ gil' = PyFunctionEntry(gil)
               /\ result' = RNone
          ELSE /\ stack' = stack
               /\ gil' = gil
               /\ \E e \in NewErrors(cfg, o) : result' = RErr(e.type, e.msg, NoEErr, NoErr)
    /\ UNCHANGED <<pyErr, mv>>

\* The sources whose code the engine is evaluating: the snippet itself and
\* every file it has loaded.
Sources(f) ==
    (IF f.kind = "snippet" THEN {SrcVirtual(f.entry[1])} ELSE {}) \cup {e.id : e \in f.loaded}

\* An entry file imported from the Default identity: not what line 308 does.
EngineAsksFromDefault(f, from, path) ==
    \/ f.pc = "entry" /\ from = SrcDefault /\ path = f.entry
    \/ f.pc = "engine" /\ from \in Sources(f)
\* Line 308: the entry file is imported from SourceDirectory("."); every
\* later import comes from a source the engine is evaluating.
EngineAsks(f, from, path) ==
    \/ f.pc = "entry" /\ from = SrcDir(Dot) /\ path = f.entry
    \/ f.pc = "engine" /\ from \in Sources(f)

Seen(f, from, path) == \E r \in f.seen : r.from = from /\ r.path = path

(***************************************************************************)
(* PythonImportResolver::resolve_from, lines 36-61: up to the call of the  *)
(* Python callback.                                                        *)
(***************************************************************************)
ResolveFromCall(from, path, cwdOk) ==
    LET b == ResolveBase(from, cwdOk)
        req == [from |-> from, path |-> path, base |-> b.base, again |-> Seen(Top, from, path)]
    IN CASE b.st = "ok" ->
              /\ stack' = SetTop([Top EXCEPT !.pc = "import_cb", !.req = req])
              /\ gil' = WithGilEnter(gil)
              /\ pyErr' = pyErr
         [] b.st = "io" ->
              /\ stack' = SetTop([FailTop(EErr("ImportIo", "current_dir", NoSrc, <<>>))
                                     EXCEPT !.req = req])
              /\ gil' = Unwound(gil)
              /\ pyErr' = pyErr
         [] b.st = "cant" ->
              /\ stack' = SetTop([FailTop(CallbackError(CantResolve.msg)) EXCEPT !.req = req])
              /\ pyErr' = CantResolve
              /\ gil' = Unwound(WithGilExit(WithGilEnter(gil)))

\* A resolver that remembers what each (from, path) resolved to and answers
\* from memory: not what lines 60-61 do.
EngineImportMemo(from, path, cwdOk) ==
    /\ MainRuns /\ Depth > 0
    /\ Top.resolver = "python"
    /\ EngineAsks(Top, from, path)
    /\ IF Seen(Top, from, path)
       THEN /\ stack' = SetTop([Top EXCEPT !.pc = "resolved",
                   !.resolved = (CHOOSE r \in Top.seen : r.from = from /\ r.path = path).id])
            /\ UNCHANGED <<gil, pyErr>>
       ELSE ResolveFromCall(from, path, cwdOk)
    /\ UNCHANGED <<result, stackLimit, mv>>

EngineImport(from, path, cwdOk) ==
    /\ MainRuns /\ Depth > 0
    /\ Top.resolver = "python"
    /\ EngineAsks(Top, from, path)
    /\ ResolveFromCall(from, path, cwdOk)
    /\ UNCHANGED <<result, stackLimit, mv>>

(***************************************************************************)
(* resolve_from, lines 61-86: the callback has returned or raised.         *)
(***************************************************************************)
ImportCbReturn(ret) ==
    /\ MainRuns /\ Depth > 0
    /\ Top.pc = "import_cb"
    /\ CASE ret.t = "raise" /\ IsPanicException(ret.exc) ->
              /\ pyErr' = NoErr
              /\ gil' = Unwound(WithGilExit(gil))
              /\ stack' = SetTop(PanicTop)
         [] ret.t = "raise" /\ ~IsPanicException(ret.exc) ->
              /\ pyErr' = ret.exc
              /\ gil' = Unwound(WithGilExit(gil))
              /\ stack' = SetTop(FailTop(CallbackError(ExcToString(ret.exc))))
         [] ret.t = "badshape" ->
              /\ pyErr' = ExtractFailed(ret.h)
              /\ gil' = Unwound(WithGilExit(gil))
              /\ stack' = SetTop(FailTop(CallbackError(ExcToString(ExtractFailed(ret.h)))))
         [] ret.t = "pair" /\ ret.content = NoContent ->
              /\ pyErr' = pyErr
              /\ gil' = Unwound(WithGilExit(gil))
              /\ stack' = SetTop([FailTop(NotFound(Top.req.from, Top.req.path, ret.resolved))
                     EXCEPT !.ret = ret,
                            !.out = CacheAfter(Top.out, ret.resolved, ret.content)])
         [] ret.t = "pair" /\ ret.content # NoContent ->
              /\ pyErr' = pyErr
              /\ gil' = WithGilExit(gil)
              /\ stack' = SetTop([Top EXCEPT !.pc = "resolved", !.ret = ret,
                     !.out = CacheAfter(Top.out, ret.resolved, ret.content),
                     !.resolved = ResolvedIdentity(ret.resolved),
                     !.first = IF \E e \in @ : e.id = SrcFile(ret.resolved) THEN @
                               ELSE @ \cup {[id |-> SrcFile(ret.resolved),
                                             content |-> ret.content]},
                     !.seen = IF Top.req.again THEN @
                              ELSE @ \cup {[from |-> Top.req.from, path |-> Top.req.path,
                                            id |-> SrcFile(ret.resolved),
                                            content |-> ret.content]}])
    /\ result' = RNone        \* what a call made by the callback returned went with the callback
    /\ UNCHANGED <<stackLimit, mv>>

(***************************************************************************)
(* load_file_contents, lines 88-93, called by the engine's import_resolved *)
(* for a resolved source it has not loaded yet.                            *)
(***************************************************************************)
load_file_contents(out, resolved) ==
    IF ContainsKey(out, resolved) THEN Get(out, resolved) ELSE "<panic>"

EngineLoad ==
    /\ MainRuns /\ Depth > 0
    /\ Top.pc = "resolved"
    /\ LET id == Top.resolved
           c == load_file_contents(Top.out, id)
       IN stack' = SetTop([Top EXCEPT
              !.pc = IF ~ContainsKey(Top.loaded, id) /\ c = "<panic>" THEN "panicked" ELSE "engine",
              !.loaded = IF ContainsKey(@, id) THEN @ ELSE @ \cup {[id |-> id, content |-> c]},
              !.req = NoReq,
              !.ret = NoRet,
              !.resolved = NoSrc])
    /\ UNCHANGED <<result, pyErr, stackLimit, gil, mv>>

(***************************************************************************)
(* An import in a session without import callback: jrsonnet's own          *)
(* FileImportResolver reads the file system; no Python code runs.          *)
(***************************************************************************)
EngineFileImport(path, found, P) ==
    /\ MainRuns /\ Depth > 0
    /\ Top.resolver # "python"
    /\ Top.pc \in {"entry", "engine"}
    /\ Top.pc = "entry" => path = Top.entry
    /\ IF found
       THEN /\ \E id \in P.ids, c \in P.contents :
                 stack' = SetTop([Top EXCEPT !.pc = "engine",
                     !.loaded = IF ContainsKey(@, SrcFile(id)) THEN @
                                ELSE @ \cup {[id |-> SrcFile(id), content |-> c]}])
            /\ gil' = gil
       ELSE /\ stack' = SetTop(FailTop(EErr("ImportFileNotFound", "", SrcDir(Dot), path)))
            /\ gil' = Unwound(gil)
    /\ UNCHANGED <<result, pyErr, stackLimit, mv>>

(***************************************************************************)
(* JsonnetNativeCallbackHandler::call, lines 175-181: the arguments are    *)
(* converted and the Python function is called.                            *)
(***************************************************************************)
\* Lines 177-181 on arguments that are all evaluated: they are converted
\* and the Python function is called, or the conversion panics and the
\* guards of this and of the enclosing conversions are dropped.
ConvertAndCall(name, args, f, g) ==
    LET hargs == [i \in 1..Len(args) |-> val_to_pyobject(args[i], f.preserve_order)]
        call == [name |-> name, args |-> args, hargs |-> hargs]
    IN IF \E i \in 1..Len(hargs) : hargs[i] = Panic
       THEN /\ stack' = SetTop([f EXCEPT !.pc = "panicked", !.call = call, !.forcing = <<>>])
            /\ gil' = DropGuards(g, 1 + Len(f.forcing))
       ELSE /\ stack' = SetTop([f EXCEPT !.pc = "native_cb", !.call = call])
            /\ gil' = g

\* The guard is taken at line 176.  An argument with an element that is not
\* evaluated yet keeps the engine evaluating inside the conversion, with the
\* guard held: the call waits in `forcing`.
EngineNativeCall(name, args) ==
    /\ MainRuns /\ Depth > 0
    /\ Top.pc = "engine"
    /\ name \in Top.natives
    /\ IF ArgsMet(args, Top.preserve_order) = "lazy"
       THEN /\ Len(Top.forcing) < MaxForcing
            /\ stack' = SetTop([Top EXCEPT
                   !.forcing = Append(@, [name |-> name, args |-> args, hargs |-> <<>>])])
            /\ gil' = WithGilEnter(gil)
       ELSE ConvertAndCall(name, args, Top, WithGilEnter(gil))
    /\ UNCHANGED <<result, pyErr, stackLimit, mv>>

(***************************************************************************)
(* The element or field being forced inside val_to_pyobject (lines 143,    *)
(* 154) has evaluated to a value: the conversion goes on, to the next      *)
(* element that is not evaluated yet, or to its end and the call of the    *)
(* Python function (line 181), or to a panic.                              *)
(***************************************************************************)
ForceDone(v) ==
    /\ MainRuns /\ Depth > 0
    /\ Top.pc = "engine"
    /\ Top.forcing # <<>>
    /\ LET n == Len(Top.forcing)
           c == Top.forcing[n]
           args == ArgsForced(c.args, v, Top.preserve_order)
       IN IF ArgsMet(args, Top.preserve_order) = "lazy"
          THEN /\ stack' = SetTop([Top EXCEPT !.forcing[n].args = args])
               /\ gil' = gil
          ELSE ConvertAndCall(c.name, args, [Top EXCEPT !.forcing = SubSeq(@, 1, n - 1)], gil)
    /\ UNCHANGED <<result, pyErr, stackLimit, mv>>

(***************************************************************************)
(* call, lines 181-193: the Python function has returned or raised.  The   *)
(* conversion of what it returned (line 182) runs the __index__, __len__   *)
(* and __getitem__ of the objects in it: Python code, inside the same      *)
(* guard, which can make calls of its own like the function itself.        *)
(***************************************************************************)
NativeCbReturn(ret) ==
    /\ MainRuns /\ Depth > 0
    /\ Top.pc = "native_cb"
    /\ LET r == IF ret.t = "raise" THEN PErr(ret.exc) ELSE pyobject_to_val(ret.h)
       IN IF r.ok
          THEN /\ stack' = SetTop([Top EXCEPT !.pc = "engine", !.call = NoCall, !.got = r.val])
               /\ gil' = WithGilExit(gil)
               /\ pyErr' = pyErr
          ELSE IF IsPanicException(r.err)
          THEN /\ stack' = SetTop(PanicTop)
               /\ gil' = Unwound(WithGilExit(gil))
               /\ pyErr' = NoErr
          ELSE /\ stack' = SetTop(FailTop(NativeError(Top.call.name, r.err)))
               /\ gil' = Unwound(WithGilExit(gil))
               /\ pyErr' = r.err
    /\ result' = RNone        \* what a call made by the callback returned went with the callback
    /\ UNCHANGED <<stackLimit, mv>>

(***************************************************************************)
(* The engine fails on its own (a syntax error, error "...", a missing     *)
(* top-level argument, a stack overflow): no Python code is involved.      *)
(***************************************************************************)
EngineError ==
    /\ MainRuns /\ Depth > 0
    /\ Top.pc = "engine"
    /\ stack' = SetTop(FailTop(EErr("RuntimeError", "engine", NoSrc, <<>>)))
    /\ gil' = Unwound(gil)
    /\ UNCHANGED <<result, pyErr, stackLimit, mv>>

(***************************************************************************)
(* The evaluation ends with a value: apply_tla, manifest, Ok(result),      *)
(* lines 306-318 and 398-401.                                              *)
(***************************************************************************)
EngineFinish(val) ==
    /\ MainRuns /\ Depth > 0
    /\ Top.pc = "engine"
    /\ Top.forcing = <<>>
    /\ result' = ManifestResult(val, Top.preserve_order)
    /\ stack' = SubSeq(stack, 1, Depth - 1)
    /\ UNCHANGED <<pyErr, stackLimit, gil, mv>>

(***************************************************************************)
(* The evaluation ended with an error: map_err(error_to_pyerr), lines      *)
(* 398-400 and 320-333.                                                    *)
(***************************************************************************)
ReturnErr ==
    /\ MainRuns /\ Depth > 0
    /\ Top.pc = "failed"
    /\ result' = error_to_pyerr(Top.err, pyErr)
    /\ pyErr' = NoErr
    /\ stack' = SubSeq(stack, 1, Depth - 1)
    /\ UNCHANGED <<stackLimit, gil, mv>>

(***************************************************************************)
(* A panic unwinds out of the engine to the #[pyfunction] wrapper of       *)
(* evaluate_file / evaluate_snippet (lines 353, 406), which raises it in   *)
(* Python as pyo3's PanicException: no engine error is translated.  The    *)
(* wrapper restores the PanicException over whatever exception a callback  *)
(* adapter had left pending, which is lost: it is not fetched as a cause.  *)
(***************************************************************************)
\* err: the engine error that unwrap hit, if any; it is not part of what
\* Python gets.
PanicException(err) == RErr("PanicException", "panic", err, NoErr)

PanicUnwinds ==
    /\ MainRuns /\ Depth > 0
    /\ Top.pc = "panicked"
    /\ result' = PanicException(Top.err)
    /\ pyErr' = NoErr
    /\ stack' = SubSeq(stack, 1, Depth - 1)
    /\ UNCHANGED <<stackLimit, gil, mv>>

(***************************************************************************)
(* Another Python thread.  It gets the GIL when the GIL is free or when    *)
(* the main thread, running Python code, is switched out by the            *)
(* interpreter; it gives it back.                                          *)
(***************************************************************************)
OtherThreadRuns ==
    /\ gil.owner # "other"
    /\ gil.owner = "none" \/ InHostCode
    /\ gil' = [gil EXCEPT !.owner = "other"]
    /\ UNCHANGED <<stack, result, pyErr, stackLimit, mv>>

OtherThreadYields ==
    /\ gil.owner = "other"
    /\ gil' = [gil EXCEPT !.owner = IF gil.depth > 0 THEN "main" ELSE "none"]
    /\ UNCHANGED <<stack, result, pyErr, stackLimit, mv>>

(***************************************************************************)
(* Specifications.                                                         *)
(***************************************************************************)
Idle == [phase |-> "idle"]

Init ==
    /\ stack = <<>>
    /\ result = RNone
    /\ pyErr = NoErr
    /\ stackLimit = 200       \* jrsonnet's limit before any call
    /\ gil = [owner |-> "main", depth |-> 1]
    /\ mv = Idle

\* The inputs of a call made from inside a callback are drawn from narrower
\* sets than those of the outermost call: S for the outermost, T for the rest.
InputsAt(S, T) == IF Depth <= 1 THEN S ELSE T

\* The exceptions the running callback can raise: its own, or the one a call
\* it made has just raised, which it lets through.
Raised ==
    {Boom} \cup (IF result.status = "err" THEN {PyExc(result.type, result.msg)} ELSE {})

CallSteps(P) ==
    \E kind \in IF Depth = 0 THEN {"file", "snippet"} ELSE P.nestedKinds,
       entry \in P.paths,
       cfg \in IF Depth = 0 THEN P.cfgs ELSE P.nested :
        Call(kind, entry, cfg, P.depth)

ImportSteps(P) ==
    \/ \E from \in {SrcDir(Dot), SrcDefault} \cup {SrcVirtual(p[1]) : p \in P.paths}
                       \cup {SrcFile(id) : id \in P.ids},
          path \in P.paths, cwdOk \in InputsAt(BOOLEAN, {TRUE}) :
           EngineImport(from, path, cwdOk)
    \/ \E ret \in InputsAt(CbRets(P), {CbPair(id, "x") : id \in P.ids})
                       \cup {CbRaise(e) : e \in Raised} :
           ImportCbReturn(ret)
    \/ EngineLoad

NativeSteps ==
    \/ \E name \in {"f"}, args \in InputsAt(NativeArgs, {<<VNum(1)>>, <<ArrFailing>>}) :
           EngineNativeCall(name, args)
    \/ \E v \in ForcedVals : ForceDone(v)
    \/ \E ret \in {CbReturn(h) : h \in InputsAt(NativeRets, {HInt(1)})}
                       \cup {CbRaise(e) : e \in Raised} :
           NativeCbReturn(ret)
    \/ PanicUnwinds

EndSteps ==
    \/ EngineError
    \/ \E val \in InputsAt(FinalVals, {VNum(1)}) : EngineFinish(val)
    \/ ReturnErr

Next ==
    \/ CallSteps(Small)
    \/ ImportSteps(Small)
    \/ \E path \in Small.paths, found \in BOOLEAN : EngineFileImport(path, found, Small)
    \/ NativeSteps
    \/ EndSteps
    \/ OtherThreadRuns
    \/ OtherThreadYields

Spec == Init /\ [][Next]_vars

\* One session at a time with an import callback, and the wider import inputs.
NextImport ==
    \/ CallSteps(Wide)
    \/ ImportSteps(Wide)
    \/ EndSteps

SpecImport == Init /\ [][NextImport]_vars
(***************************************************************************)
(* The marshaler on its own: a Python value is converted to an engine      *)
(* value and back, an engine value is converted to a Python value.         *)
(***************************************************************************)
SeqsUpTo(S, n) == UNION {[1..k -> S] : k \in 0..n}

HostAtoms ==
    {HNone, HBool(TRUE), HBool(FALSE), HInt(-1), HInt(0), HInt(2), HFloat(2), HFloat(-2),
     HStr("a"), HStr(LoneSurrogate), HObject, HIndex(7), HIndex(-1)}
HostKeys == {HStr("a"), HStr("b"), HInt(1), HFloat(2), HNone, HStr(LoneSurrogate)}
HostDicts(S, n) ==
    {HDict(e) : e \in {x \in SeqsUpTo([k : HostKeys, v : S], n) :
                          \A i, j \in 1..Len(x) : i # j => x[i].k # x[j].k}}
HostFlat ==
    HostAtoms \cup {HList(x) : x \in SeqsUpTo(HostAtoms, MaxLen)}
              \cup {HTuple(x) : x \in SeqsUpTo(HostAtoms, 1)}
              \cup HostDicts(HostAtoms, MaxLen)
HostSeqs ==
    {HBytes(<<HInt(97), HInt(98)>>), HRange(<<HInt(0), HInt(1)>>), HRange(<<HInt(-1), HInt(0)>>),
     HSeq(<<HStr("a")>>, NoErr), HSeq(<<HStr("a")>>, PyExc("ValueError", "boom")),
     HSeq(<<HInt(-1)>>, PyExc("ValueError", "boom"))}
HostInner == {HList(<<HInt(2), HInt(-1)>>), HList(<<HBool(TRUE)>>),
              HDict(<<[k |-> HStr("b"), v |-> HInt(0)], [k |-> HStr("a"), v |-> HNone]>>)}
                 \cup HostSeqs
HostVals ==
    HostFlat \cup HostSeqs \cup {HList(<<x>>) : x \in HostInner}
             \cup {HDict(<<[k |-> HStr("a"), v |-> x]>>) : x \in HostInner}

EngineVals ==
    {ObjBAC, VFunc, VArr(<<VNum(1), VStr("a")>>), VArr(<<VFunc>>), ArrFailing,
     VObj(<<[k |-> "a", v |-> VFailing("x"), hidden |-> FALSE]>>),
     VObj(<<[k |-> "b", v |-> VBool(TRUE), hidden |-> FALSE],
            [k |-> "a", v |-> VNull, hidden |-> TRUE]>>)}

InitMarshal ==
    /\ stack = <<>>
    /\ result = RNone
    /\ pyErr = NoErr
    /\ stackLimit = 200
    /\ gil = [owner |-> "main", depth |-> 1]
    /\ \/ \E h \in HostVals, p \in BOOLEAN :
              mv = [phase |-> "host", host |-> h, preserve_order |-> p]
       \/ \E v \in EngineVals, p \in BOOLEAN :
              mv = [phase |-> "val", val |-> v, preserve_order |-> p]

ToEngineValue ==
    /\ mv.phase = "host"
    /\ mv' = [phase |-> "engine", host |-> mv.host, preserve_order |-> mv.preserve_order,
              res |-> pyobject_to_val(mv.host)]
    /\ UNCHANGED <<stack, result, pyErr, stackLimit, gil>>

BackToHostValue ==
    /\ mv.phase = "engine"
    /\ mv.res.ok
    /\ mv' = [phase |-> "back", host |-> mv.host, preserve_order |-> mv.preserve_order,
              res |-> mv.res, back |-> val_to_pyobject(mv.res.val, mv.preserve_order)]
    /\ UNCHANGED <<stack, result, pyErr, stackLimit, gil>>

ToHostValue ==
    /\ mv.phase = "val"
    /\ mv' = [phase |-> "out", val |-> mv.val, preserve_order |-> mv.preserve_order,
              back |-> val_to_pyobject(mv.val, mv.preserve_order)]
    /\ UNCHANGED <<stack, result, pyErr, stackLimit, gil>>

NextMarshal == ToEngineValue \/ BackToHostValue \/ ToHostValue

SpecMarshal == InitMarshal /\ [][NextMarshal]_vars

(***************************************************************************)
(* Properties.                                                             *)
(***************************************************************************)
Frames == {stack[i] : i \in 1..Depth}

\* C1, as stated: when a (from, path) pair is resolved a second time in a
\* session, the resolver returns the identity of the first resolution, and the
\* cache then holds for it the content the first resolution of the pair returned.
C1_SamePairSameIdentityAndContent ==
    \A f \in Frames :
        (f.pc = "resolved" /\ f.req.again) =>
            LET r == CHOOSE r \in f.seen : r.from = f.req.from /\ r.path = f.req.path
            IN f.resolved = r.id /\ Get(f.out, f.resolved) = r.content

\* C1, amended: a resolution returns the identity of the path the callback
\* named, and the cache holds for every identity the content of the first
\* successful resolution that yielded that identity, whatever later
\* invocations of the callback return.
C1_KeepsFirstContent ==
    \A f \in Frames :
        /\ f.out = f.first
        /\ f.pc = "resolved" =>
              /\ f.resolved = SrcFile(f.ret.resolved)
              /\ ContainsKey(f.out, f.resolved)

\* A second resolution of a pair whose callback returned new content, which was dropped.
C1_Witness ==
    \E f \in Frames :
        /\ f.pc = "resolved" /\ f.req.again
        /\ f.ret.content # Get(f.out, f.resolved)

ResolveReturns == Depth > 0 /\ Depth' = Depth /\ Top.pc # "resolved" /\ Top'.pc = "resolved"

ResolveRequested == Depth > 0 /\ Depth' = Depth /\ Top.req = NoReq /\ Top'.req # NoReq

C3_ManifestFollowsFlag ==
    (result.status = "ok" /\ result.val = ObjBAC) =>
        result.text = IF result.preserve_order
                      THEN "{\"b\": 1, \"a\": 2, \"c\": 3}"
                      ELSE "{\"a\": 2, \"b\": 1, \"c\": 3}"

\* The values C4 speaks of: booleans, None, strings, integers, and lists and
\* string-keyed dicts of these.
RECURSIVE RoundTrippable(_)
RoundTrippable(h) ==
    CASE h.t \in {"none", "bool", "str", "int"} -> TRUE
      [] h.t = "list" -> \A i \in 1..Len(h.items) : RoundTrippable(h.items[i])
      [] h.t = "dict" -> \A i \in 1..Len(h.entries) :
                            h.entries[i].k.t = "str" /\ RoundTrippable(h.entries[i].v)
      [] OTHER -> FALSE

\* C4: on these values pyobject_to_val succeeds, and val_to_pyobject of its
\* result equals the value it started from.
C4_RoundTrip ==
    (mv.phase \in {"engine", "back"} /\ RoundTrippable(mv.host)) =>
        /\ mv.res.ok
        /\ mv.phase = "back" => HostEq(mv.back, mv.host)

\* C5, as stated: the FileNotFound error of evaluate_file names the path the
\* callback returned.
C5_NotFoundNamesResolvedPath ==
    \A f \in Frames :
        (f.kind = "file" /\ f.pc = "failed" /\ f.err.kind = "ImportFileNotFound") =>
            f.err.path = f.ret.resolved

\* C5, amended: the FileNotFound error names the requesting source and the
\* requested relative path; the path the callback returned is dropped, and no
\* Python exception is attached.
C5_NotFoundNamesRequest ==
    /\ \A f \in Frames :
          (f.pc = "failed" /\ f.err.kind = "ImportFileNotFound") =>
              /\ f.ret.t = "pair" /\ f.ret.content = NoContent
              /\ f.err.from = f.req.from /\ f.err.path = f.req.path
    /\ (result.status = "err" /\ result.err.kind = "ImportFileNotFound") =>
          /\ result.err.path \in Wide.paths
          /\ result.cause = NoErr

\* evaluate_file has returned FileNotFound for its entry path.
C5_Witness ==
    /\ result.status = "err"
    /\ result.err.kind = "ImportFileNotFound"
    /\ result.err.from = SrcDir(Dot)

\* The engine of a snippet session resolves an import.
SnippetImports ==
    /\ Depth > 0 /\ Depth' = Depth
    /\ Top.kind = "snippet" /\ Top.pc = "engine"
    /\ Top'.req # NoReq

\* C6, as stated: every import reached from a snippet invokes the import callback.
C6_SnippetImportCallsBack ==
    [][SnippetImports => Top'.pc = "import_cb"]_vars

\* C6, amended: every import reached from a snippet invokes the import
\* callback, with the current directory as base when the importing source is
\* the snippet itself, unless the current directory cannot be read: then the
\* import fails with ImportIo before the callback is called.
C6_SnippetImportCallsBackUnlessIo ==
    [][SnippetImports =>
          \/ /\ Top'.pc = "import_cb"
             /\ gil'.depth = gil.depth + 1
             /\ Top'.req.from.kind = "Virtual" => Top'.req.base = Cwd
          \/ /\ Top'.pc = "failed"
             /\ Top'.err.kind = "ImportIo"
             /\ Top'.req.from.kind = "Virtual"
             /\ pyErr' = NoErr]_vars

\* The callback is running for an import written in the snippet itself.
C6_Witness ==
    \E f \in Frames :
        /\ f.kind = "snippet" /\ f.pc = "import_cb"
        /\ f.req.from.kind = "Virtual"

\* C7: a session exists only if every code-valued binding parsed, and the
\* error of a malformed one is returned by construction: it carries no
\* engine error and no Python cause, nothing having been evaluated or called.
C7_MalformedCodeFailsConstruction ==
    /\ \A f \in Frames : \A c \in f.ext_codes \cup f.tla_codes : ParseOk(c)
    /\ (result.status = "err" /\ result.msg = "syntax error") =>
          /\ result.type = "RuntimeError"
          /\ result.err = NoEErr
          /\ result.cause = NoErr

\* A call with a malformed binding has returned its error.
C7_Witness == result.status = "err" /\ result.msg = "syntax error"

\* The engine of the innermost call is running (not one of its callbacks).
Evaluating == IF Depth = 0 THEN FALSE ELSE Top.pc \notin CbPcs
\* C8: the evaluating thread holds the GIL only around each callback: while
\* the engine evaluates between callbacks it does not hold it, so another
\* thread can take it.
C8_GilFreeBetweenCallbacks == Evaluating => gil.depth = 0

NativeErrorText(name, exc) ==
    "error invoking native extension " \o name \o ": " \o exc.type \o ": " \o exc.msg

\* C9: a native call whose function raised, or returned a value that does not
\* convert, fails with a RuntimeError naming the callback and the Python
\* error, which is pending and becomes the cause of the error returned; the
\* engine only ever gets values that converted.
C9_NativeFailureIsRuntimeError ==
    /\ (Evaluating /\ Top.pc = "failed" /\ Top.call # NoCall) =>
          /\ pyErr # NoErr
          /\ Top.err = EErr("RuntimeError", NativeErrorText(Top.call.name, pyErr), NoSrc, <<>>)
    /\ (result.status = "err" /\ result.err.kind = "RuntimeError" /\ result.err.msg # "engine") =>
          /\ result.cause # NoErr
          /\ result.err.msg = NativeErrorText("f", result.cause)
    /\ \A f \in Frames :
          f.got # NoVal => \E h \in NativeRets : pyobject_to_val(h) = POk(f.got)

\* C10: the stack depth limit in force while the engine of a session runs is
\* the one that session was called with, whatever other calls were made
\* meanwhile (from its callbacks included).
C10_StackLimitIsTheSessions ==
    (Evaluating /\ Top.pc \in {"entry", "engine", "resolved"}) => stackLimit = Top.max_stack

\* The import callback is running for the entry file of an evaluate_file call.
EntryCallback(f) == f.kind = "file" /\ f.pc = "import_cb" /\ f.loaded = {}

\* C11, as stated: evaluate_file resolves its entry path against the Default
\* identity, so the first invocation of the import callback gets the current
\* working directory as base and the entry path as relative path.
C11_EntryBaseIsCwd ==
    \A f \in Frames :
        EntryCallback(f) =>
            f.req.from = SrcDefault /\ f.req.base = Cwd /\ f.req.path = f.entry

\* C11, amended: evaluate_file resolves its entry path against the Directory
\* identity ".", so the first invocation of the import callback gets the
\* relative path "." as base (not the absolute current directory) and the
\* entry path as relative path; the current directory is not read, so this
\* first resolution cannot fail with ImportIo.
C11_EntryBaseIsDot ==
    \A f \in Frames :
        /\ EntryCallback(f) =>
              f.req.from = SrcDir(<<".">>) /\ f.req.base = <<".">> /\ f.req.path = f.entry
        /\ (f.kind = "file" /\ f.pc = "failed" /\ f.loaded = {}) => f.err.kind # "ImportIo"

\* The callback is running for the entry file, with "." as base.
C11_Witness ==
    \E f \in Frames : EntryCallback(f) /\ f.req.base = Dot /\ f.req.path = f.entry

\* The value holds a lazy element or field whose evaluation fails.
RECURSIVE HasFailing(_)
HasFailing(val) ==
    CASE val.t = "Failing" -> TRUE
      [] val.t = "Arr" -> \E i \in 1..Len(val.items) : HasFailing(val.items[i])
      [] val.t = "Obj" -> \E i \in 1..Len(val.fields) :
                             ~val.fields[i].hidden /\ HasFailing(val.fields[i].v)
      [] OTHER -> FALSE

\* C12: when the conversion of a native call's arguments forces an element
\* whose evaluation fails, the call fails with that engine error, which is
\* what the host gets translated; the conversion does not panic.
C12_LazyErrorPropagates ==
    /\ \A f \in Frames :
          (f.call # NoCall /\ \E i \in 1..Len(f.call.args) : HasFailing(f.call.args[i])) =>
              f.pc = "failed" /\ f.err.kind = "RuntimeError"
    /\ result.status = "err" => result.type # "PanicException"

\* The engine of the innermost session takes a step of an import.
ImportStep == Depth > 0 /\ Depth' = Depth /\ Top.pc \in {"entry", "engine"} /\ Top' # Top

\* C13: a session given an import callback has the callback resolver, with
\* or without search paths, and then no import reads the file system through
\* the search paths; a session given only search paths has the file-system
\* resolver with those roots, and never calls into Python for an import; a
\* session has one resolver.
C13_CallbackTakesPrecedence ==
    [][/\ \A i \in 1..Depth' :
             LET f == stack'[i]
             IN /\ f.resolver \in {"python", "jpath", "default"}
                /\ f.import_callback # "none" => f.resolver = "python"
                /\ (f.import_callback = "none" /\ f.jpathdir) => f.resolver = "jpath"
                /\ (f.import_callback = "none" /\ ~f.jpathdir) => f.resolver = "default"
                /\ f.pc \in {"import_cb", "resolved"} => f.resolver = "python"
       /\ (ImportStep /\ Top.resolver = "python" /\ Top'.pc # "import_cb") =>
             /\ Top'.loaded = Top.loaded
             /\ Top'.pc \in {"engine", "native_cb", "failed", "panicked"}
       /\ (ImportStep /\ Top.resolver # "python") => Top'.pc # "import_cb" /\ Top'.out = {}]_vars

\* The callback is running for a session that was also given search paths.
C13_Witness ==
    \E f \in Frames : f.import_callback = "callable" /\ f.jpathdir /\ f.pc = "import_cb"

\* C14: pyobject_to_val turns every Python number, an int of either sign or
\* a float, into the engine number of the same value; none of them fails.
C14_NumbersConvert ==
    (mv.phase \in {"engine", "back"} /\ mv.host.t \in {"int", "float"}) =>
        mv.res = POk(VNum(IF mv.host.t = "int" THEN mv.host.n ELSE mv.host.f))

\* The resolver of the innermost session is asked to resolve an import
\* written in a virtual source.
VirtualRequest ==
    /\ Depth > 0 /\ Depth' = Depth
    /\ Top.req = NoReq /\ Top'.req # NoReq
    /\ Top'.req.from.kind = "Virtual"

\* C15, as stated: a resolve request from a Virtual identity fails at once
\* with a CallbackError, the callback is not invoked and the cache is not changed.
C15_VirtualFailsImmediately ==
    [][VirtualRequest =>
          /\ Top'.pc = "failed" /\ Top'.err.kind = "ImportCallbackError"
          /\ Top'.out = Top.out]_vars

\* C15, amended: a resolve request from a Virtual identity is resolved like
\* one from the Default identity: the callback is invoked with the current
\* directory as base (and its answer can then enter the cache); the request
\* fails at once, with ImportIo and no pending Python error, only when the
\* current directory cannot be read.  The CallbackError "can't resolve this
\* path" is never the outcome of a request the engine makes.
C15_VirtualResolvesFromCwd ==
    [][/\ VirtualRequest =>
             /\ Top'.out = Top.out
             /\ \/ /\ Top'.pc = "import_cb"
                   /\ Top'.req.base = <<"/", "cwd">>
                   /\ gil'.depth = gil.depth + 1
                \/ /\ Top'.pc = "failed"
                   /\ Top'.err = EErr("ImportIo", "current_dir", NoSrc, <<>>)
                   /\ pyErr' = pyErr
       /\ \A i \in 1..Depth' :
             stack'[i].err.msg # "import_callback error: can't resolve this path"]_vars

\* A request from the snippet's virtual source has been resolved by the
\* callback and its content is in the cache.
C15_Witness ==
    \E f \in Frames :
        /\ f.pc = "resolved" /\ f.req.from.kind = "Virtual"
        /\ ContainsKey(f.out, f.resolved)

\* The engine loads the source that resolve_from has just returned.
LoadStep == Depth > 0 /\ Depth' = Depth /\ Top.pc = "resolved" /\ Top'.pc # "resolved"

\* C16: load_file_contents only reads the cache: it calls no Python code
\* (the GIL guard count and the pending error are as before), leaves the
\* cache as it is, and returns the cached content; it is only ever called for
\* an identity that a successful resolution of the same session put in the
\* cache, so its unwrap never panics.
C16_LoadIsPureLookup ==
    [][/\ LoadStep =>
             /\ \E e \in Top.first : e.id = Top.resolved
             /\ ContainsKey(Top.out, Top.resolved)
             /\ Top'.pc = "engine"
             /\ Top'.out = Top.out
             /\ gil' = gil /\ pyErr' = pyErr
             /\ \E e \in Top'.loaded :
                   e.id = Top.resolved /\ e.content = load_file_contents(Top.out, Top.resolved)
       /\ \A i \in 1..Depth' : stack'[i].pc # "panicked"]_vars

\* The engine has loaded two sources from the cache.
C16_Witness ==
    \E f \in Frames :
        /\ f.pc = "engine" /\ Cardinality(f.loaded) = 2
        /\ \A e \in f.loaded : e \in f.out

\* A resolve request of the innermost session ends, in failure or with an
\* identity.
ResolveEnds ==
    /\ Depth > 0 /\ Depth' = Depth
    /\ Top.pc \in {"entry", "engine", "import_cb"} /\ Top'.pc \in {"failed", "resolved"}
    /\ Top'.req # NoReq
ResolveFails == ResolveEnds /\ Top'.pc = "failed"

\* The cache of a session changes only when a resolution succeeds for an
\* identity that was not cached, and then by that one entry.
CacheGrowsOnSuccessOnly ==
    \A i \in 1..Depth :
        (i <= Depth' /\ stack'[i].out # stack[i].out) =>
            /\ i = Depth /\ Depth' = Depth
            /\ Top.pc = "import_cb" /\ Top'.pc = "resolved"
            /\ Top'.ret.t = "pair" /\ Top'.ret.content # NoContent
            /\ ~ContainsKey(Top.out, Top'.resolved)
            /\ Top'.out = Top.out \cup {[id |-> Top'.resolved, content |-> Top'.ret.content]}
            /\ Cardinality(Top'.out) = Cardinality(Top.out) + 1

\* C17, as stated: a resolve request fails when the callback raises, answers
\* with something that is not a (str, Optional[str]) pair, or answers without
\* content, and whenever the requesting identity is Virtual; every failed
\* request leaves the cache as it was, and the cache only grows, by one
\* entry, on a successful resolve of an identity that was not cached.
C17_VirtualRequestFails ==
    [][/\ ResolveFails => Top'.out = Top.out
       /\ (ResolveEnds /\ Top'.req.from.kind = "Virtual") =>
             Top'.pc = "failed" /\ Top'.out = Top.out
       /\ CacheGrowsOnSuccessOnly]_vars

\* C17, amended: a resolve request fails when the callback raises, answers
\* with something that is not a (str, Optional[str]) pair, or answers without
\* content, or when the requesting identity is Virtual and the current
\* directory cannot be read; it fails in no other way.  Every failed request
\* leaves the cache as it was.  A request from a Virtual identity whose
\* callback answers with content succeeds like any other and its identity
\* is then in the cache.  The cache only grows, by one entry, on a successful
\* resolve of an identity that was not cached.
C17_FailedResolveKeepsCache ==
    [][/\ ResolveFails =>
             /\ Top'.out = Top.out
             /\ \/ /\ Top.pc = "import_cb" /\ Top'.err.kind = "ImportCallbackError"
                   /\ \E ret \in CbRets(Wide) :
                         /\ ret.t \in {"raise", "badshape"}
                         /\ pyErr' = (IF ret.t = "raise" THEN ret.exc ELSE ExtractFailed(ret.h))
                         /\ Top'.err = CallbackError(ExcToString(pyErr'))
                \/ /\ Top.pc = "import_cb" /\ Top'.err.kind = "ImportFileNotFound"
                   /\ Top'.ret.t = "pair" /\ Top'.ret.content = NoContent
                \/ /\ Top.pc = "engine" /\ Top'.err.kind = "ImportIo"
                   /\ Top'.req.from.kind = "Virtual"
       /\ (ResolveEnds /\ Top'.req.from.kind = "Virtual" /\ Top'.pc = "resolved") =>
             /\ Top.pc = "import_cb"
             /\ Top'.ret.t = "pair" /\ Top'.ret.content # NoContent
             /\ ContainsKey(Top'.out, Top'.resolved)
       /\ CacheGrowsOnSuccessOnly]_vars

\* A resolve request from the snippet's virtual source has failed in a
\* session whose cache holds what an earlier request from it resolved.
C17_Witness ==
    \E f \in Frames :
        /\ f.pc = "failed" /\ f.req # NoReq /\ f.req.from.kind = "Virtual"
        /\ f.out # {}
        /\ f.err.kind \in {"ImportCallbackError", "ImportFileNotFound", "ImportIo"}

\* The engine error was made by one of the two callback adapters.
FromCallback(err) ==
    \/ err.kind = "ImportCallbackError"
    \/ err.kind = "RuntimeError" /\ err.msg # "engine"

\* C18: a Python exception is pending only from the moment a callback
\* adapter failed until the error of that session is translated; whenever
\* Python code runs again (a call has returned, or a callback of an outer
\* call goes on) none is pending; the error returned has that exception as
\* cause when it came from a callback, and no cause otherwise.
C18_PendingErrorHandedOff ==
    /\ pyErr # NoErr =>
          /\ Depth > 0 /\ Top.pc = "failed"
          /\ FromCallback(Top.err)
    /\ InHostCode => pyErr = NoErr
    /\ result.status = "err" =>
          /\ result.cause # NoErr <=> FromCallback(result.err)
          /\ result.err.kind = "ImportCallbackError" =>
                result.err = CallbackError(ExcToString(result.cause))
          /\ (result.err.kind = "RuntimeError" /\ result.err.msg # "engine") =>
                result.err = NativeError("f", result.cause)

====
